---- MODULE Spec2Model ----
(***************************************************************************)
(* State-machine model of the Checklist PWA (ChecklistApp component):      *)
(* the IndexedDB stores, the React state of the component, the timers the  *)
(* reminder code arms, and the handlers that change them.                  *)
(*                                                                         *)
(* Time is counted in days since the epoch: a dueDate is a day number, or  *)
(* Null; new Date(null) is day 0.  The reminder repeat period (5 minutes)  *)
(* and the auto-dismiss delay (minutes) are shorter than one unit of the   *)
(* clock, so an armed repeat or auto-dismiss timer may fire at any later   *)
(* step.                                                                   *)
(*                                                                         *)
(* A handler is a closure of the render that created it: the values of     *)
(* `items` and `reminderIntervals` it reads are those of that render,      *)
(* while functional updates (setItems(prev => ...)) apply to the current   *)
(* state.  A timer keeps the closure of the render that armed it; the      *)
(* model records in the timer exactly what its callbacks read from it.     *)
(***************************************************************************)
EXTENDS Integers, Sequences, FiniteSets, TLC

VARIABLES
    dbChecklists,       \* object store 'checklists' : set of records, keyed by id
    dbItems,            \* object store 'items'
    dbArchive,          \* object store 'archive'
    checklists,         \* React state: array of checklist records
    items,              \* React state: array of active item records
    archive,            \* React state: array of archived records
    reminderIntervals,  \* React state: item id -> timer handle (0: no entry)
    timers,             \* live browser timers (setTimeout / setInterval)
    notified,           \* per tag (item id): notifications shown so far
    now,                \* the clock, in days
    nextId,             \* generateId(): ids handed out so far
    nextHandle,         \* timer handles handed out so far
    showNewItemModal,   \* React state: the item form is open
    editingItem,        \* React state: {} (null) or {the item being edited}
    selectedChecklist,  \* React state: checklist id of the open form, or Null
    permission,         \* Notification.permission === 'granted'
    pending,            \* handler runs suspended at an await (an in-flight dbOperation)
    evaluation,         \* {} or {a call of calculateNextDueDate with its result}
    server              \* the sync server: data files, requests in progress, replies

vars == <<dbChecklists, dbItems, dbArchive, checklists, items, archive,
          reminderIntervals, timers, notified, now, nextId, nextHandle,
          showNewItemModal, editingItem, selectedChecklist, permission, pending,
          evaluation, server>>

storeVars == <<dbChecklists, dbItems, dbArchive, checklists, items, archive>>
schedVars == <<reminderIntervals, timers, notified, nextHandle>>
modalVars == <<showNewItemModal, editingItem, selectedChecklist>>

----------------------------------------------------------------------------
(* Bounds of the model *)

MaxIds == 4
MaxReminderIds == 3     \* ids handed out in the runs of Spec
MaxPosition == 4
MaxHandles == 3
MaxTime == 3
MaxNotified == 2
MaxCalls == 2           \* handler runs suspended at the same time
MaxSaves == 2           \* save requests the server takes
MaxRequests == 2        \* save requests in progress at the same time
MaxServerTime == 1

(* Program constants *)

Null == -1                  \* null, and the '' of an empty form field
Undefined == -2             \* a property the record does not have
DefaultReminderRepeat == 1
DaysPerWeek == 7
Epoch == 0                  \* new Date(null).getTime()
MinIdLength == 3            \* server.js: {3,50}
MaxIdLength == 50

Ids == 1..MaxIds
Handles == 1..MaxHandles

----------------------------------------------------------------------------
(* Sequence helpers *)

RECURSIVE SeqFilterIds(_, _)
\* arr.filter(x => x.id is not in ids)
SeqFilterIds(s, ids) ==
    IF s = <<>> THEN <<>>
    ELSE IF Head(s).id \in ids THEN SeqFilterIds(Tail(s), ids)
         ELSE <<Head(s)>> \o SeqFilterIds(Tail(s), ids)

SeqRange(s) == {s[i] : i \in 1..Len(s)}

\* arr.filter(x => x.checklistId === cid), order kept
RECURSIVE SeqOfChecklist(_, _)
SeqOfChecklist(s, cid) ==
    IF s = <<>> THEN <<>>
    ELSE IF Head(s).checklistId = cid THEN <<Head(s)>> \o SeqOfChecklist(Tail(s), cid)
         ELSE SeqOfChecklist(Tail(s), cid)

\* arr.filter(x => x.checklistId !== cid)
RECURSIVE SeqNotOfChecklist(_, _)
SeqNotOfChecklist(s, cid) ==
    IF s = <<>> THEN <<>>
    ELSE IF Head(s).checklistId # cid THEN <<Head(s)>> \o SeqNotOfChecklist(Tail(s), cid)
         ELSE SeqNotOfChecklist(Tail(s), cid)

\* arr.map(x => x.id === r.id ? r : x)
SeqReplace(s, r) == [i \in 1..Len(s) |-> IF s[i].id = r.id THEN r ELSE s[i]]

\* arr.find(x => x.id === id), as a set of at most one record
Find(s, id) == {r \in SeqRange(s) : r.id = id}

\* x.order || 0
OrderOrZero(r) == IF r.order = Undefined THEN 0 ELSE r.order

\* the number of records taken for their greatest position
C21_CountAsMax(recs) == Cardinality(recs)

\* arr.reduce((max, x) => Math.max(max, x.order || 0), 0)
MaxOrder(recs) ==
    IF recs = {} THEN 0
    ELSE LET os == {OrderOrZero(r) : r \in recs} \cup {0}
         IN CHOOSE m \in os : \A o \in os : o <= m

----------------------------------------------------------------------------
(* IndexedDB object stores: sets of records keyed by id *)

StoreIds(store) == {r.id : r \in store}

\* an add that overwrites, as store.put does
C13_AddOverwrites(store, rec) == TRUE
C17_AddAlways(store, rec) == TRUE

\* store.add(rec) raises ConstraintError when the key exists; when it does
\* not, the record is stored as by put
CanAdd(store, rec) == rec.id \notin StoreIds(store)

\* store.put(rec): upsert by key
StorePut(store, rec) == {r \in store : r.id # rec.id} \cup {rec}

\* store.delete(id): no error when the key is absent
StoreDelete(store, id) == {r \in store : r.id # id}

----------------------------------------------------------------------------
(* Recurrence *)

\* new Date(d).getTime(), in days
DateOf(d) == IF d = Null THEN Epoch ELSE d

\* calculateNextDueDate(currentDueDate, frequency, customInterval):
\* Null for "return null", otherwise the day of current.toISOString()
CalculateNextDueDate(currentDueDate, frequency, customInterval) ==
    LET current == DateOf(currentDueDate) IN
    CASE frequency = "daily"  -> current + 1
      [] frequency = "weekly" -> current + DaysPerWeek
      [] frequency = "custom" ->
            IF customInterval # Null /\ customInterval # 0
            THEN current + customInterval
            ELSE current
      [] OTHER -> Null

----------------------------------------------------------------------------
(* calculateNextDueDate on the calendar.  Here an instant is a number of    *)
(* hours since 2023-12-01T00:00Z, a civil date is [year, month, date], and  *)
(* a time zone is [std, dst]: the standard offset from UTC in hours and the *)
(* set of instants at which daylight saving time begins.  Date.getDate and  *)
(* Date.setDate work on the fields of local time; toISOString and           *)
(* new Date(isoString) are in UTC.                                          *)

CalendarStart == [year |-> 2023, month |-> 12]

IsLeapYear(y) == (y % 4 = 0 /\ y % 100 # 0) \/ y % 400 = 0

DaysInMonth(y, m) ==
    IF m = 2 THEN (IF IsLeapYear(y) THEN 29 ELSE 28)
    ELSE IF m \in {4, 6, 9, 11} THEN 30 ELSE 31

\* the month after month m of year y
MonthAfter(y, m) == IF m = 12 THEN [year |-> y + 1, month |-> 1]
                    ELSE [year |-> y, month |-> m + 1]

\* days from the first of month (y0, m0) to the first of month (y, m)
RECURSIVE DaysBetweenMonths(_, _, _, _)
DaysBetweenMonths(y0, m0, y, m) ==
    IF y0 = y /\ m0 = m THEN 0
    ELSE DaysInMonth(y0, m0)
         + DaysBetweenMonths(MonthAfter(y0, m0).year, MonthAfter(y0, m0).month, y, m)

\* MakeDay(year, month, date) of ECMAScript: the date may lie past the end
\* of the month, the day number simply counts on
MakeDay(y, m, dt) ==
    DaysBetweenMonths(CalendarStart.year, CalendarStart.month, y, m) + dt - 1

\* the civil date of day number n, counted from the first of month (y, m)
RECURSIVE CivilFrom(_, _, _)
CivilFrom(n, y, m) ==
    IF n < DaysInMonth(y, m) THEN [year |-> y, month |-> m, date |-> n + 1]
    ELSE CivilFrom(n - DaysInMonth(y, m), MonthAfter(y, m).year, MonthAfter(y, m).month)

CivilOfDay(n) == CivilFrom(n, CalendarStart.year, CalendarStart.month)

\* LocalTime(t): the offset in force at the UTC instant t
LocalTime(zone, t) ==
    t + zone.std + Cardinality({b \in zone.dst : t >= b})

\* UTC(local): a local time skipped by the change to daylight saving time is
\* read with the offset in force before the change
UTC(zone, local) ==
    local - zone.std - Cardinality({b \in zone.dst : local >= b + zone.std + 1})

\* Date.prototype.getDate
GetDate(zone, t) == CivilOfDay(LocalTime(zone, t) \div 24).date

\* Date.prototype.setDate(dt): the local day changes, the local time of day
\* stays
SetDate(zone, t, dt) ==
    LET local == LocalTime(zone, t)
        civil == CivilOfDay(local \div 24)
    IN UTC(zone, (MakeDay(civil.year, civil.month, dt) * 24) + (local % 24))

\* calculateNextDueDate(currentDueDate, frequency, customInterval) in a
\* browser of time zone `zone`, for a currentDueDate that is set
NextDueDateTime(zone, currentDueDate, frequency, customInterval) ==
    LET current == currentDueDate IN
    CASE frequency = "daily"  -> SetDate(zone, current, GetDate(zone, current) + 1)
      [] frequency = "weekly" ->
            SetDate(zone, current, GetDate(zone, current) + DaysPerWeek)
      [] frequency = "custom" ->
            IF customInterval # Null /\ customInterval # 0
            THEN SetDate(zone, current, GetDate(zone, current) + customInterval)
            ELSE current
      [] OTHER -> Null

\* new Date(isoString).getTime() for the UTC date and hour of the string
DateTime(y, m, dt, hour) == (MakeDay(y, m, dt) * 24) + hour

----------------------------------------------------------------------------
(* Notifications and the reminder scheduler.  The scheduler state that one  *)
(* handler run changes is threaded as a record                              *)
(*   [timers, ri, notified, nextHandle].                                    *)

Sched == [timers |-> timers, ri |-> reminderIntervals,
          notified |-> notified, nextHandle |-> nextHandle]

\* a showNotification that cancels every timer when permission is missing
C34_DeniedCancels(S, id) ==
    IF permission THEN [S EXCEPT !.notified[id] = @ + 1]
    ELSE [S EXCEPT !.timers = {}]

\* showNotification(title, {tag: id}): silent no-op without permission
ShowNotification(S, id) ==
    IF permission THEN [S EXCEPT !.notified[id] = @ + 1] ELSE S

\* clearInterval(handle) / clearTimeout(handle): one pool of handles
ClearInterval(tms, h) == {t \in tms : t.h # h}

\* setupReminder(item) run in a closure whose `items` holds `seen` for
\* item.id and whose reminderIntervals[item.id] is riSeen
SetupReminder(S, item, seen, riSeen) ==
    IF item.dueDate = Null THEN S
    ELSE IF DateOf(item.dueDate) <= now THEN ShowNotification(S, item.id)
    ELSE LET h == S.nextHandle + 1
             t == [h |-> h, kind |-> "due", item |-> item, seen |-> seen,
                   riSeen |-> riSeen, repeatCount |-> 0]
         IN [S EXCEPT !.timers = @ \cup {t},
                      !.ri[item.id] = h,
                      !.nextHandle = h]

\* the scheduler variables take the values of S
SchedIs(S) ==
    /\ S.nextHandle <= MaxHandles
    /\ \A i \in Ids : S.notified[i] <= MaxNotified
    /\ timers' = S.timers
    /\ reminderIntervals' = S.ri
    /\ notified' = S.notified
    /\ nextHandle' = S.nextHandle

----------------------------------------------------------------------------
(* Records *)

\* an item record whose createdAt is written anew on every save
C27_CreatedAtRewritten(id, cid, title, due, freq, custom, repeat, dismiss, ord, created, updated) ==
    [id |-> id, checklistId |-> cid, title |-> title, dueDate |-> due,
     repeatFrequency |-> freq, customInterval |-> custom,
     reminderRepeat |-> repeat, autoDismissAfter |-> dismiss,
     completed |-> FALSE, order |-> ord, createdAt |-> updated,
     updatedAt |-> updated]

\* the object literal of createOrUpdateItem; `notes` only feeds the body of
\* a notification and is left out
ItemRec(id, cid, title, due, freq, custom, repeat, dismiss, ord, created, updated) ==
    [id |-> id, checklistId |-> cid, title |-> title, dueDate |-> due,
     repeatFrequency |-> freq, customInterval |-> custom,
     reminderRepeat |-> repeat, autoDismissAfter |-> dismiss,
     completed |-> FALSE, order |-> ord, createdAt |-> created,
     updatedAt |-> updated]

\* { ...item, completed: true, completedAt: new Date().toISOString() }
CompletedItem(item, t) ==
    [id |-> item.id, checklistId |-> item.checklistId, title |-> item.title,
     dueDate |-> item.dueDate, repeatFrequency |-> item.repeatFrequency,
     customInterval |-> item.customInterval,
     reminderRepeat |-> item.reminderRepeat,
     autoDismissAfter |-> item.autoDismissAfter,
     completed |-> TRUE, order |-> item.order, createdAt |-> item.createdAt,
     updatedAt |-> item.updatedAt, completedAt |-> t]

\* generateId()
NewId == nextId + 1

\* x || null, x || 1 on a number read from the form
OrNull(x) == IF x = Null \/ x = 0 THEN Null ELSE x
OrDefault(x, d) == IF x = Null \/ x = 0 THEN d ELSE x

\* a trim that removes nothing
C33_KeepsBlanks(t) == t

\* title.trim(): a title is a sequence of tokens, " " being white space
RECURSIVE TrimLeft(_)
TrimLeft(t) == IF t # <<>> /\ Head(t) = " " THEN TrimLeft(Tail(t)) ELSE t
RECURSIVE TrimRight(_)
TrimRight(t) ==
    IF t # <<>> /\ t[Len(t)] = " " THEN TrimRight(SubSeq(t, 1, Len(t) - 1)) ELSE t
Trim(t) == TrimRight(TrimLeft(t))

\* `${title} (Copy)`
CopyTitle(t) == t \o <<" ", "(Copy)">>

----------------------------------------------------------------------------
(* Item handlers *)

\* the buttons of the page are under the modal while the item form is open
PageActive == ~showNewItemModal

\* onClick of the "add item" button of a checklist card
OpenNewItem(cid) ==
    /\ PageActive
    /\ cid \in {c.id : c \in SeqRange(checklists)}
    /\ showNewItemModal' = TRUE
    /\ selectedChecklist' = cid
    /\ UNCHANGED <<editingItem, storeVars, schedVars, now, nextId, permission, pending, evaluation, server>>

\* onEdit of an item row
OpenEdit(item) ==
    /\ PageActive
    /\ item \in SeqRange(items)
    /\ showNewItemModal' = TRUE
    /\ editingItem' = {item}
    /\ selectedChecklist' = item.checklistId
    /\ UNCHANGED <<storeVars, schedVars, now, nextId, permission, pending, evaluation, server>>

\* onClose of the item form
CloseModal ==
    /\ showNewItemModal
    /\ showNewItemModal' = FALSE
    /\ editingItem' = {}
    /\ UNCHANGED <<selectedChecklist, storeVars, schedVars, now, nextId, permission, pending, evaluation, server>>

\* createOrUpdateItem(itemData)
CreateOrUpdateItem(itemData) ==
    LET isEditing == editingItem # {}
        e == CHOOSE r \in editingItem : TRUE
        checklistItems == SeqRange(SeqOfChecklist(items, selectedChecklist))
        maxOrder == IF isEditing THEN e.order ELSE MaxOrder(checklistItems) + 1
        item == ItemRec(IF isEditing THEN e.id ELSE NewId,
                        selectedChecklist,
                        itemData.title,
                        itemData.dueDate,
                        itemData.repeatFrequency,
                        OrNull(itemData.customInterval),
                        OrDefault(itemData.reminderRepeat, DefaultReminderRepeat),
                        OrNull(itemData.autoDismissAfter),
                        maxOrder,
                        IF isEditing THEN e.createdAt ELSE now,
                        now)
        S == SetupReminder(Sched, item, Find(items, item.id),
                           reminderIntervals[item.id])
    IN /\ isEditing \/ nextId < MaxIds
       /\ dbItems' = IF isEditing THEN StorePut(dbItems, item)
                                  ELSE dbItems \cup {item}
       /\ items' = IF isEditing THEN SeqReplace(items, item)
                               ELSE Append(items, item)
       /\ SchedIs(S)
       /\ nextId' = IF isEditing THEN nextId ELSE NewId
       /\ showNewItemModal' = FALSE
       /\ editingItem' = {}
       /\ UNCHANGED <<dbChecklists, dbArchive, checklists, archive,
                      selectedChecklist, now, permission, pending, evaluation, server>>

\* NewItemModal.handleSubmit: an empty title submits nothing
HandleSubmit(formData) ==
    /\ showNewItemModal
    /\ IF Trim(formData.title) # <<>>
       THEN CreateOrUpdateItem([formData EXCEPT !.title = Trim(formData.title)])
       ELSE UNCHANGED vars

\* toggleItemComplete(itemId) run in a closure whose `items` holds `found`
\* for itemId and whose reminderIntervals[itemId] is riSeen; `confirmed` is
\* the answer to confirm() when the due date is still ahead; S0 is the
\* scheduler state the call starts from
ToggleItemComplete(S0, itemId, found, riSeen, confirmed) ==
    LET item == CHOOSE r \in found : TRUE
        asks == ~item.completed /\ item.dueDate # Null /\ DateOf(item.dueDate) > now
        completedItem == CompletedItem(item, now)
        S1 == IF riSeen # 0
              THEN [S0 EXCEPT !.timers = ClearInterval(@, riSeen),
                              !.ri[itemId] = 0]
              ELSE S0
        nextDueDate == CalculateNextDueDate(item.dueDate, item.repeatFrequency,
                                            item.customInterval)
        regen == item.repeatFrequency # "none" /\ nextDueDate # Null
        newItem == [item EXCEPT !.id = NewId, !.dueDate = nextDueDate,
                                !.completed = FALSE, !.createdAt = now,
                                !.updatedAt = now]
        \* the closure's items and reminderIntervals know nothing of a new id
        S2 == IF regen THEN SetupReminder(S1, newItem, {}, 0) ELSE S1
    IN IF \/ found = {}
          \/ asks /\ ~confirmed
          \/ item.completed
          \/ ~CanAdd(dbArchive, completedItem)    \* the add throws: caught, logged
       THEN /\ SchedIs(S0)
            /\ UNCHANGED <<storeVars, modalVars, now, nextId, permission, pending, evaluation, server>>
       ELSE /\ ~regen \/ nextId < MaxIds
            /\ dbArchive' = StorePut(dbArchive, completedItem)
            /\ dbItems' = IF regen
                          THEN StoreDelete(dbItems, itemId) \cup {newItem}
                          ELSE StoreDelete(dbItems, itemId)
            /\ items' = IF regen
                        THEN Append(SeqFilterIds(items, {itemId}), newItem)
                        ELSE SeqFilterIds(items, {itemId})
            /\ archive' = Append(archive, completedItem)
            /\ SchedIs(S2)
            /\ nextId' = IF regen THEN NewId ELSE nextId
            /\ UNCHANGED <<dbChecklists, checklists, modalVars, now, permission, pending, evaluation, server>>

\* onChange of the checkbox of an item row
ClickComplete(itemId, confirmed) ==
    /\ PageActive
    /\ Find(items, itemId) # {}
    /\ ToggleItemComplete(Sched, itemId, Find(items, itemId),
                          reminderIntervals[itemId], confirmed)

\* deleteItem(itemId)
DeleteItem(itemId) ==
    LET S == IF reminderIntervals[itemId] # 0
             THEN [Sched EXCEPT !.timers = ClearInterval(@, reminderIntervals[itemId]),
                                !.ri[itemId] = 0]
             ELSE Sched
    IN /\ PageActive
       /\ Find(items, itemId) # {}
       /\ dbItems' = StoreDelete(dbItems, itemId)
       /\ items' = SeqFilterIds(items, {itemId})
       /\ SchedIs(S)
       /\ UNCHANGED <<dbChecklists, dbArchive, checklists, archive, modalVars,
                      now, nextId, permission, pending, evaluation, server>>

\* duplicateItem(originalItem)
DuplicateItem(originalItem) ==
    LET checklistItems == SeqRange(SeqOfChecklist(items, originalItem.checklistId))
        maxOrder == MaxOrder(checklistItems)
        newItem == [originalItem EXCEPT !.id = NewId,
                                        !.title = CopyTitle(@),
                                        !.completed = FALSE,
                                        !.order = maxOrder + 1,
                                        !.createdAt = now,
                                        !.updatedAt = now]
        S == IF newItem.dueDate # Null
             THEN SetupReminder(Sched, newItem, {}, 0) ELSE Sched
    IN /\ PageActive
       /\ originalItem \in SeqRange(items)
       /\ nextId < MaxIds
       /\ dbItems' = dbItems \cup {newItem}
       /\ items' = Append(items, newItem)
       /\ SchedIs(S)
       /\ nextId' = NewId
       /\ UNCHANGED <<dbChecklists, dbArchive, checklists, archive, modalVars,
                      now, permission, pending, evaluation, server>>

----------------------------------------------------------------------------
(* Drag and drop of items *)

\* arr.findIndex(x => x.id === id) + 1 (0 when there is none)
IndexOf(s, id) ==
    IF \E i \in 1..Len(s) : s[i].id = id
    THEN CHOOSE i \in 1..Len(s) : s[i].id = id /\ \A j \in 1..(i - 1) : s[j].id # id
    ELSE 0

\* arr.splice(i - 1, 1)
RemoveAt(s, i) == SubSeq(s, 1, i - 1) \o SubSeq(s, i + 1, Len(s))

\* arr.splice(i - 1, 0, x)
InsertAt(s, i, x) == SubSeq(s, 1, i - 1) \o <<x>> \o SubSeq(s, i, Len(s))

\* arr.map(x => updated.find(u => u.id === x.id) || x)
SeqReplaceAll(s, updated) ==
    [i \in 1..Len(s) |->
        IF \E u \in updated : u.id = s[i].id
        THEN CHOOSE u \in updated : u.id = s[i].id
        ELSE s[i]]

\* for (const item of updated) await dbOperation('items', 'put', item)
StorePutAll(store, updated) ==
    {r \in store : r.id \notin {u.id : u \in updated}} \cup updated

\* handleItemDrop, "Moving between checklists"; targetItem is {} for a drop
\* on the drop zone of the checklist card
MoveBetweenChecklists(draggedItem, targetItem, finalTargetChecklistId) ==
    LET targetItems == SeqRange(SeqOfChecklist(items, finalTargetChecklistId))
        t == CHOOSE r \in targetItem : TRUE
        newOrder == IF targetItem # {} THEN t.order ELSE MaxOrder(targetItems) + 1
        updatedItem == [draggedItem EXCEPT !.checklistId = finalTargetChecklistId,
                                           !.order = newOrder,
                                           !.updatedAt = now]
        itemsToReorder ==
            IF targetItem = {} THEN {}
            ELSE {[r EXCEPT !.order = @ + 1] :
                    r \in {x \in targetItems : x.id # draggedItem.id
                                               /\ x.order >= newOrder}}
    IN /\ dbItems' = StorePutAll(StorePut(dbItems, updatedItem), itemsToReorder)
       /\ items' = SeqReplaceAll(SeqReplace(items, updatedItem), itemsToReorder)

\* handleItemDrop, "Reordering within same checklist"
ReorderWithinChecklist(draggedItem, targetItem, sourceChecklistId) ==
    LET checklistItems == SeqOfChecklist(items, sourceChecklistId)
        t == CHOOSE r \in targetItem : TRUE
        sourceIndex == IndexOf(checklistItems, draggedItem.id)
        targetIndex == IF targetItem # {} THEN IndexOf(checklistItems, t.id)
                       ELSE Len(checklistItems) + 1
        removed == RemoveAt(checklistItems, sourceIndex)
        newItems == InsertAt(removed,
                             IF targetIndex > sourceIndex THEN targetIndex - 1
                             ELSE targetIndex,
                             checklistItems[sourceIndex])
        updatedItems == {[newItems[i] EXCEPT !.order = i, !.updatedAt = now] :
                            i \in 1..Len(newItems)}
    IN IF sourceIndex = 0 \/ sourceIndex = targetIndex
       THEN UNCHANGED <<dbItems, items>>
       ELSE /\ dbItems' = StorePutAll(dbItems, updatedItems)
            /\ items' = SeqReplaceAll(items, updatedItems)

\* handleItemDrop(e, targetItem, targetChecklistId); targetItem = {} and a
\* checklist id for the drop zone, {item} and Undefined for an item row
HandleItemDrop(draggedItem, targetItem, targetChecklistId) ==
    LET sourceChecklistId == draggedItem.checklistId
        t == CHOOSE r \in targetItem : TRUE
        finalTargetChecklistId ==
            IF targetChecklistId # Undefined THEN targetChecklistId
            ELSE IF targetItem # {} THEN t.checklistId ELSE sourceChecklistId
    IN /\ PageActive
       /\ draggedItem \in SeqRange(items)
       /\ targetItem \subseteq SeqRange(items)
       /\ IF targetItem # {} /\ draggedItem.id = t.id
          THEN UNCHANGED <<dbItems, items>>
          ELSE IF sourceChecklistId # finalTargetChecklistId
          THEN MoveBetweenChecklists(draggedItem, targetItem, finalTargetChecklistId)
          ELSE ReorderWithinChecklist(draggedItem, targetItem, sourceChecklistId)
       /\ \A r \in dbItems' : r.order <= MaxPosition
       /\ UNCHANGED <<dbChecklists, dbArchive, checklists, archive, schedVars,
                      modalVars, now, nextId, permission, pending, evaluation, server>>

\* onDrop of an item row
DropOnItem(draggedItem, targetItem) ==
    /\ targetItem \in SeqRange(items)
    /\ HandleItemDrop(draggedItem, {targetItem}, Undefined)

\* handleChecklistDropZone(e, checklistId)
DropOnChecklist(draggedItem, checklistId) ==
    /\ checklistId \in {c.id : c \in SeqRange(checklists)}
    /\ HandleItemDrop(draggedItem, {}, checklistId)

----------------------------------------------------------------------------
(* Checklist handlers *)

\* createChecklist(checklistData): the record gets no `order`
CreateChecklist(name) ==
    LET newChecklist == [id |-> NewId, name |-> name, order |-> Undefined,
                         createdAt |-> now]
    IN /\ PageActive
       /\ nextId < MaxIds
       /\ dbChecklists' = dbChecklists \cup {newChecklist}
       /\ checklists' = Append(checklists, newChecklist)
       /\ nextId' = NewId
       /\ UNCHANGED <<dbItems, dbArchive, items, archive, schedVars, modalVars,
                      now, permission, pending, evaluation, server>>

\* a loop that copies no item
C31_CopiesNothing(S, its, newCid, id) == [S |-> S, added |-> <<>>]

\* the loop of duplicateChecklist over checklistItems: the records added
\* (ids from `id` on) and the scheduler state after their setupReminder calls
RECURSIVE DuplicateItems(_, _, _, _)
DuplicateItems(S, its, newCid, id) ==
    IF its = <<>> THEN [S |-> S, added |-> <<>>]
    ELSE LET newItem == [Head(its) EXCEPT !.id = id, !.checklistId = newCid,
                                         !.completed = FALSE,
                                         !.createdAt = now, !.updatedAt = now]
             S1 == IF newItem.dueDate # Null
                   THEN SetupReminder(S, newItem, {}, 0) ELSE S
             rest == DuplicateItems(S1, Tail(its), newCid, id + 1)
         IN [S |-> rest.S, added |-> <<newItem>> \o rest.added]

\* duplicateChecklist(originalChecklist)
DuplicateChecklist(originalChecklist) ==
    LET maxOrder == MaxOrder(SeqRange(checklists))
        newChecklist == [originalChecklist EXCEPT !.id = NewId,
                                                  !.name = CopyTitle(@),
                                                  !.order = maxOrder + 1,
                                                  !.createdAt = now]
        checklistItems == SeqOfChecklist(items, originalChecklist.id)
        dup == DuplicateItems(Sched, checklistItems, newChecklist.id, NewId + 1)
    IN /\ PageActive
       /\ originalChecklist \in SeqRange(checklists)
       /\ nextId + 1 + Len(checklistItems) <= MaxIds
       /\ dbChecklists' = dbChecklists \cup {newChecklist}
       /\ dbItems' = dbItems \cup SeqRange(dup.added)
       /\ items' = items \o dup.added
       /\ checklists' = Append(checklists, newChecklist)
       /\ SchedIs(dup.S)
       /\ nextId' = nextId + 1 + Len(checklistItems)
       /\ UNCHANGED <<dbArchive, archive, modalVars, now, permission, pending, evaluation, server>>

\* deleteChecklist(checklistId), the confirm() answered with OK
DeleteChecklist(checklistId) ==
    LET checklistItems == SeqRange(SeqOfChecklist(items, checklistId))
        archivedItems == SeqRange(SeqOfChecklist(archive, checklistId))
        handles == {reminderIntervals[i.id] : i \in checklistItems} \ {0}
    IN /\ PageActive
       /\ checklistId \in {c.id : c \in SeqRange(checklists)}
       /\ dbChecklists' = StoreDelete(dbChecklists, checklistId)
       /\ dbItems' = {r \in dbItems : r.id \notin {i.id : i \in checklistItems}}
       /\ dbArchive' = {r \in dbArchive : r.id \notin {a.id : a \in archivedItems}}
       /\ checklists' = SeqFilterIds(checklists, {checklistId})
       /\ items' = SeqNotOfChecklist(items, checklistId)
       /\ archive' = SeqNotOfChecklist(archive, checklistId)
       /\ timers' = {t \in timers : t.h \notin handles}
       /\ reminderIntervals' =
            [i \in Ids |-> IF i \in {x.id : x \in checklistItems} THEN 0
                           ELSE reminderIntervals[i]]
       /\ UNCHANGED <<notified, nextHandle, modalVars, now, nextId, permission, pending, evaluation, server>>

\* handleChecklistDrop(e, targetChecklist)
HandleChecklistDrop(draggedChecklist, targetChecklist) ==
    LET sourceIndex == IndexOf(checklists, draggedChecklist.id)
        targetIndex == IndexOf(checklists, targetChecklist.id)
        newChecklists == InsertAt(RemoveAt(checklists, sourceIndex), targetIndex,
                                  checklists[sourceIndex])
        updatedChecklists == [i \in 1..Len(newChecklists) |->
                                [newChecklists[i] EXCEPT !.order = i]]
    IN /\ PageActive
       /\ draggedChecklist \in SeqRange(checklists)
       /\ targetChecklist \in SeqRange(checklists)
       /\ IF draggedChecklist.id = targetChecklist.id
          THEN UNCHANGED <<dbChecklists, checklists>>
          ELSE /\ dbChecklists' = StorePutAll(dbChecklists, SeqRange(updatedChecklists))
               /\ checklists' = updatedChecklists
       /\ UNCHANGED <<dbItems, dbArchive, items, archive, schedVars, modalVars,
                      now, nextId, permission, pending, evaluation, server>>

----------------------------------------------------------------------------
(* Timer callbacks *)

\* a due callback that arms the repeat interval whatever reminderRepeat is
C28_DueAlwaysRepeats(t) ==
    LET item == t.item
        S1 == ShowNotification([Sched EXCEPT !.timers = @ \ {t}], item.id)
        h == S1.nextHandle + 1
        repeatInterval == [h |-> h, kind |-> "repeat", item |-> item,
                           seen |-> t.seen, riSeen |-> t.riSeen,
                           repeatCount |-> 1]
    IN /\ t \in timers
       /\ t.kind = "due"
       /\ now >= DateOf(item.dueDate)
       /\ SchedIs([S1 EXCEPT !.timers = @ \cup {repeatInterval},
                             !.ri[item.id] = h,
                             !.nextHandle = h])
       /\ UNCHANGED <<storeVars, modalVars, now, nextId, permission, pending, evaluation, server>>

\* the setTimeout callback of setupReminder: the due notification, then the
\* repeat interval when reminderRepeat > 1
FireDue(t) ==
    LET item == t.item
        S1 == ShowNotification([Sched EXCEPT !.timers = @ \ {t}], item.id)
        h == S1.nextHandle + 1
        repeatInterval == [h |-> h, kind |-> "repeat", item |-> item,
                           seen |-> t.seen, riSeen |-> t.riSeen,
                           repeatCount |-> 1]
        S2 == IF item.reminderRepeat > 1
              THEN [S1 EXCEPT !.timers = @ \cup {repeatInterval},
                              !.ri[item.id] = h,
                              !.nextHandle = h]
              ELSE S1
    IN /\ t \in timers
       /\ t.kind = "due"
       /\ now >= DateOf(item.dueDate)
       /\ SchedIs(S2)
       /\ UNCHANGED <<storeVars, modalVars, now, nextId, permission, pending, evaluation, server>>

\* an interval callback that never clears its interval
C29_RepeatNeverCleared(t) ==
    /\ t \in timers
    /\ t.kind = "repeat"
    /\ SchedIs(ShowNotification(
                 [Sched EXCEPT !.timers =
                     (@ \ {t}) \cup {[t EXCEPT !.repeatCount = @ + 1]}],
                 t.item.id))
    /\ UNCHANGED <<storeVars, modalVars, now, nextId, permission, pending, evaluation, server>>

\* one tick of the setInterval callback (every 5 minutes)
FireRepeat(t) ==
    LET item == t.item
        h == nextHandle + 1
        dismiss == [h |-> h, kind |-> "dismiss", item |-> item, seen |-> t.seen,
                    riSeen |-> t.riSeen, repeatCount |-> t.repeatCount]
        S == IF t.repeatCount >= item.reminderRepeat
             THEN IF item.autoDismissAfter # Null
                  THEN [Sched EXCEPT !.timers = (@ \ {t}) \cup {dismiss},
                                     !.nextHandle = h]
                  ELSE [Sched EXCEPT !.timers = @ \ {t}]
             ELSE ShowNotification(
                    [Sched EXCEPT !.timers =
                        (@ \ {t}) \cup {[t EXCEPT !.repeatCount = @ + 1]}],
                    item.id)
    IN /\ t \in timers
       /\ t.kind = "repeat"
       /\ SchedIs(S)
       /\ UNCHANGED <<storeVars, modalVars, now, nextId, permission, pending, evaluation, server>>

\* the auto-dismiss setTimeout callback: items.find and toggleItemComplete
\* are those of the closure that armed the reminder
FireDismiss(t, confirmed) ==
    LET currentItem == t.seen
        S0 == [Sched EXCEPT !.timers = @ \ {t}]
    IN /\ t \in timers
       /\ t.kind = "dismiss"
       /\ IF currentItem # {} /\ \A r \in currentItem : ~r.completed
          THEN ToggleItemComplete(S0, t.item.id, currentItem, t.riSeen, confirmed)
          ELSE /\ SchedIs(S0)
               /\ UNCHANGED <<storeVars, modalVars, now, nextId, permission, pending, evaluation, server>>

\* a sweep whose callback reads the items and reminderIntervals of the
\* current render: every overdue item without an entry is set up again
C30_SweepSeesItems(S, its) ==
    LET overdue == {r \in SeqRange(items) :
                      /\ r.dueDate # Null
                      /\ ~r.completed
                      /\ DateOf(r.dueDate) < now
                      /\ reminderIntervals[r.id] = 0}
    IN [S EXCEPT !.notified =
          [i \in Ids |-> IF i \in {r.id : r \in overdue} THEN @[i] + 1 ELSE @[i]]]

\* useState([]) and useState({}) of the first render, whose closure
\* startReminderCheck and its interval callback keep
InitialItems == <<>>
InitialReminderIntervals == [i \in Ids |-> 0]

RECURSIVE CheckItems(_, _)
CheckItems(S, its) ==
    IF its = <<>> THEN S
    ELSE LET item == Head(its)
             S1 == IF /\ item.dueDate # Null
                      /\ ~item.completed
                      /\ DateOf(item.dueDate) < now
                      /\ InitialReminderIntervals[item.id] = 0
                   THEN SetupReminder(S, item, Find(InitialItems, item.id),
                                      InitialReminderIntervals[item.id])
                   ELSE S
         IN CheckItems(S1, Tail(its))

\* the interval callback of startReminderCheck (every minute)
ReminderCheck ==
    /\ SchedIs(CheckItems(Sched, InitialItems))
    /\ UNCHANGED <<storeVars, modalVars, now, nextId, permission, pending, evaluation, server>>

----------------------------------------------------------------------------
(* toggleItemComplete step by step.  The handler is an async function: it   *)
(* runs to its first await, and each dbOperation it awaits is carried out   *)
(* by the database while other handlers and callbacks may run.  A run that  *)
(* is suspended is a record of `pending`:                                   *)
(*   [n, pc, itemId, item, riSeen, completedItem, newItem]                  *)
(* where pc names the dbOperation awaited or the code that runs next.       *)

\* a number for the next suspended run
FreeCall == CHOOSE n \in 1..MaxCalls : \A c \in pending : c.n # n

\* toggleItemComplete(itemId) up to `await dbOperation('archive', 'add', ...)`
ToggleBegin(itemId, found, riSeen, confirmed) ==
    LET item == CHOOSE r \in found : TRUE
        asks == ~item.completed /\ item.dueDate # Null /\ DateOf(item.dueDate) > now
    IN IF found = {} \/ (asks /\ ~confirmed) \/ item.completed
       THEN pending' = pending
       ELSE /\ Cardinality(pending) < MaxCalls
            /\ pending' = pending \cup
                 {[n |-> FreeCall, pc |-> "archiveAdd", itemId |-> itemId,
                   item |-> item, riSeen |-> riSeen,
                   completedItem |-> CompletedItem(item, now), newItem |-> {}]}

\* onChange of the checkbox of an item row
ClickCompleteBegin(itemId, confirmed) ==
    /\ PageActive
    /\ Find(items, itemId) # {}
    /\ ToggleBegin(itemId, Find(items, itemId), reminderIntervals[itemId], confirmed)
    /\ UNCHANGED <<storeVars, schedVars, modalVars, now, nextId, permission, evaluation, server>>

\* the auto-dismiss setTimeout callback, toggleItemComplete run to its await
FireDismissBegin(t, confirmed) ==
    LET currentItem == t.seen
    IN /\ t \in timers
       /\ t.kind = "dismiss"
       /\ timers' = timers \ {t}
       /\ IF currentItem # {} /\ \A r \in currentItem : ~r.completed
          THEN ToggleBegin(t.item.id, currentItem, t.riSeen, confirmed)
          ELSE pending' = pending
       /\ UNCHANGED <<storeVars, reminderIntervals, notified, nextHandle,
                      modalVars, now, nextId, permission, evaluation, server>>

\* dbOperation('archive', 'add', completedItem): a ConstraintError when the
\* key exists, which the catch of the handler logs
ToggleArchiveAdd(c) ==
    /\ c \in pending
    /\ c.pc = "archiveAdd"
    /\ IF CanAdd(dbArchive, c.completedItem)
       THEN /\ dbArchive' = StorePut(dbArchive, c.completedItem)
            /\ pending' = (pending \ {c}) \cup {[c EXCEPT !.pc = "itemsDelete"]}
       ELSE /\ dbArchive' = dbArchive
            /\ pending' = pending \ {c}
    /\ UNCHANGED <<dbChecklists, dbItems, checklists, items, archive, schedVars,
                   modalVars, now, nextId, permission, evaluation, server>>

\* dbOperation('items', 'delete', itemId)
ToggleItemsDelete(c) ==
    /\ c \in pending
    /\ c.pc = "itemsDelete"
    /\ dbItems' = StoreDelete(dbItems, c.itemId)
    /\ pending' = (pending \ {c}) \cup {[c EXCEPT !.pc = "completed"]}
    /\ UNCHANGED <<dbChecklists, dbArchive, checklists, items, archive, schedVars,
                   modalVars, now, nextId, permission, evaluation, server>>

\* after the delete: setItems, setArchive, the reminder cleared, and the
\* repeat handled up to `await dbOperation('items', 'add', newItem)`
ToggleCompleted(c) ==
    LET item == c.item
        S1 == IF c.riSeen # 0
              THEN [Sched EXCEPT !.timers = ClearInterval(@, c.riSeen),
                                 !.ri[c.itemId] = 0]
              ELSE Sched
        nextDueDate == CalculateNextDueDate(item.dueDate, item.repeatFrequency,
                                            item.customInterval)
        regen == item.repeatFrequency # "none" /\ nextDueDate # Null
        newItem == [item EXCEPT !.id = NewId, !.dueDate = nextDueDate,
                                !.completed = FALSE, !.createdAt = now,
                                !.updatedAt = now]
    IN /\ c \in pending
       /\ c.pc = "completed"
       /\ ~regen \/ nextId < MaxIds
       /\ items' = SeqFilterIds(items, {c.itemId})
       /\ archive' = Append(archive, c.completedItem)
       /\ SchedIs(S1)
       /\ nextId' = IF regen THEN NewId ELSE nextId
       /\ pending' = IF regen
                     THEN (pending \ {c}) \cup
                          {[c EXCEPT !.pc = "itemsAdd", !.newItem = {newItem}]}
                     ELSE pending \ {c}
       /\ UNCHANGED <<dbChecklists, dbItems, dbArchive, checklists, modalVars,
                      now, permission, evaluation, server>>

\* dbOperation('items', 'add', newItem)
ToggleItemsAdd(c) ==
    /\ c \in pending
    /\ c.pc = "itemsAdd"
    /\ dbItems' = dbItems \cup c.newItem
    /\ pending' = (pending \ {c}) \cup {[c EXCEPT !.pc = "regenerated"]}
    /\ UNCHANGED <<dbChecklists, dbArchive, checklists, items, archive, schedVars,
                   modalVars, now, nextId, permission, evaluation, server>>

\* after the add: setItems and setupReminder(newItem), in the closure of the
\* run, whose items and reminderIntervals know nothing of the new id
ToggleRegenerated(c) ==
    LET newItem == CHOOSE r \in c.newItem : TRUE
    IN /\ c \in pending
       /\ c.pc = "regenerated"
       /\ items' = Append(items, newItem)
       /\ SchedIs(SetupReminder(Sched, newItem, {}, 0))
       /\ pending' = pending \ {c}
       /\ UNCHANGED <<dbChecklists, dbItems, dbArchive, checklists, archive,
                      modalVars, now, nextId, permission, evaluation, server>>

\* a suspended run of toggleItemComplete goes on
ToggleStep(c) ==
    \/ ToggleArchiveAdd(c)
    \/ ToggleItemsDelete(c)
    \/ ToggleCompleted(c)
    \/ ToggleItemsAdd(c)
    \/ ToggleRegenerated(c)

\* the write a suspended run of toggleItemComplete waits for is rejected
\* (request.onerror): the catch of the handler logs the error, and the run
\* ends there; each dbOperation is a transaction of its own
ToggleFails(c) ==
    /\ c \in pending
    /\ c.pc \in {"archiveAdd", "itemsDelete", "itemsAdd"}
    /\ pending' = pending \ {c}
    /\ UNCHANGED <<storeVars, schedVars, modalVars, now, nextId, permission,
                   evaluation, server>>

\* createOrUpdateItem(itemData) up to `await dbOperation('items', ...)`: the
\* record is built from the editingItem, selectedChecklist and items of the
\* closure, and the form stays open
CreateOrUpdateItemBegin(itemData) ==
    LET isEditing == editingItem # {}
        e == CHOOSE r \in editingItem : TRUE
        checklistItems == SeqRange(SeqOfChecklist(items, selectedChecklist))
        maxOrder == IF isEditing THEN e.order ELSE MaxOrder(checklistItems) + 1
        item == ItemRec(IF isEditing THEN e.id ELSE NewId,
                        selectedChecklist,
                        itemData.title,
                        itemData.dueDate,
                        itemData.repeatFrequency,
                        OrNull(itemData.customInterval),
                        OrDefault(itemData.reminderRepeat, DefaultReminderRepeat),
                        OrNull(itemData.autoDismissAfter),
                        maxOrder,
                        IF isEditing THEN e.createdAt ELSE now,
                        now)
    IN /\ isEditing \/ nextId < MaxIds
       /\ Cardinality(pending) < MaxCalls
       /\ pending' = pending \cup
            {[n |-> FreeCall, pc |-> "itemsSave", isEditing |-> isEditing,
              newItem |-> {item}, seen |-> Find(items, item.id),
              riSeen |-> reminderIntervals[item.id]]}
       /\ nextId' = IF isEditing THEN nextId ELSE NewId
       /\ UNCHANGED <<storeVars, schedVars, modalVars, now, permission,
                      evaluation, server>>

\* NewItemModal.handleSubmit, createOrUpdateItem run to its await
HandleSubmitBegin(formData) ==
    /\ showNewItemModal
    /\ IF Trim(formData.title) # <<>>
       THEN CreateOrUpdateItemBegin([formData EXCEPT !.title = Trim(formData.title)])
       ELSE UNCHANGED vars

\* dbOperation('items', 'put' or 'add', item) and the code after it: setItems,
\* setupReminder, the form closed; the catch logs an add on an existing key
ItemSaved(c) ==
    LET item == CHOOSE r \in c.newItem : TRUE
    IN /\ c \in pending
       /\ c.pc = "itemsSave"
       /\ pending' = pending \ {c}
       /\ IF c.isEditing \/ CanAdd(dbItems, item)
          THEN /\ dbItems' = StorePut(dbItems, item)
               /\ items' = IF c.isEditing THEN SeqReplace(items, item)
                                          ELSE Append(items, item)
               /\ SchedIs(SetupReminder(Sched, item, c.seen, c.riSeen))
               /\ showNewItemModal' = FALSE
               /\ editingItem' = {}
          ELSE UNCHANGED <<dbItems, items, schedVars, showNewItemModal, editingItem>>
       /\ UNCHANGED <<dbChecklists, dbArchive, checklists, archive,
                      selectedChecklist, now, nextId, permission, evaluation, server>>

\* duplicateItem(originalItem) up to `await dbOperation('items', 'add', newItem)`
DuplicateItemBegin(originalItem) ==
    LET checklistItems == SeqRange(SeqOfChecklist(items, originalItem.checklistId))
        maxOrder == MaxOrder(checklistItems)
        newItem == [originalItem EXCEPT !.id = NewId,
                                        !.title = CopyTitle(@),
                                        !.completed = FALSE,
                                        !.order = maxOrder + 1,
                                        !.createdAt = now,
                                        !.updatedAt = now]
    IN /\ PageActive
       /\ originalItem \in SeqRange(items)
       /\ nextId < MaxIds
       /\ Cardinality(pending) < MaxCalls
       /\ pending' = pending \cup
            {[n |-> FreeCall, pc |-> "duplicateAdd", newItem |-> {newItem}]}
       /\ nextId' = NewId
       /\ UNCHANGED <<storeVars, schedVars, modalVars, now, permission,
                      evaluation, server>>

\* dbOperation('items', 'add', newItem) and the code after it: setItems and
\* setupReminder in the closure of the run
ItemDuplicated(c) ==
    LET newItem == CHOOSE r \in c.newItem : TRUE
        S == IF newItem.dueDate # Null
             THEN SetupReminder(Sched, newItem, {}, 0) ELSE Sched
    IN /\ c \in pending
       /\ c.pc = "duplicateAdd"
       /\ pending' = pending \ {c}
       /\ IF CanAdd(dbItems, newItem)
          THEN /\ dbItems' = StorePut(dbItems, newItem)
               /\ items' = Append(items, newItem)
               /\ SchedIs(S)
          ELSE UNCHANGED <<dbItems, items, schedVars>>
       /\ UNCHANGED <<dbChecklists, dbArchive, checklists, archive, modalVars,
                      now, nextId, permission, evaluation, server>>

----------------------------------------------------------------------------
(* The clock, and closing and reopening the app *)

Tick ==
    /\ now < MaxTime
    /\ now' = now + 1
    /\ UNCHANGED <<storeVars, schedVars, modalVars, nextId, permission, pending, evaluation, server>>

\* the comparator of loadData: a.order - b.order when both have an order,
\* else the difference of the createdAt dates
LoadCompare(a, b) ==
    IF a.order # Undefined /\ b.order # Undefined THEN a.order - b.order
    ELSE a.createdAt - b.createdAt

\* the arrays Array.prototype.sort may return for getAll() of a store: no
\* neighbours out of order, equal neighbours in key order (getAll returns
\* the records by key and the sort is stable)
SortedLoads(store) ==
    {s \in [1..Cardinality(store) -> store] :
        /\ \A i, j \in 1..Cardinality(store) : i # j => s[i] # s[j]
        /\ \A i \in 1..(Cardinality(store) - 1) :
              \/ LoadCompare(s[i], s[i + 1]) < 0
              \/ LoadCompare(s[i], s[i + 1]) = 0 /\ s[i].id < s[i + 1].id}

\* getAll() of the archive store, by key
RECURSIVE ByKey(_)
ByKey(store) ==
    IF store = {} THEN <<>>
    ELSE LET r == CHOOSE x \in store : \A y \in store : x.id <= y.id
         IN <<r>> \o ByKey(store \ {r})

\* the page is closed and opened again: timers and React state are gone,
\* initApp runs loadData
Reload ==
    /\ \E cl \in SortedLoads(dbChecklists) : checklists' = cl
    /\ \E it \in SortedLoads(dbItems) : items' = it
    /\ archive' = ByKey(dbArchive)
    /\ timers' = {}
    /\ reminderIntervals' = InitialReminderIntervals
    /\ nextHandle' = 0
    /\ showNewItemModal' = FALSE
    /\ editingItem' = {}
    /\ selectedChecklist' = Null
    /\ UNCHANGED <<dbChecklists, dbItems, dbArchive, notified, now, nextId,
                   permission, evaluation, server>>
    /\ pending' = {}

----------------------------------------------------------------------------
(* The sync server (server.js): one JSON file per identifier *)

Lowercase == {"a", "b", "c", "d", "e", "f", "g", "h", "i", "j", "k", "l", "m",
              "n", "o", "p", "q", "r", "s", "t", "u", "v", "w", "x", "y", "z"}
Uppercase == {"A", "B", "C", "D", "E", "F", "G", "H", "I", "J", "K", "L", "M",
              "N", "O", "P", "Q", "R", "S", "T", "U", "V", "W", "X", "Y", "Z"}
Digits == {"0", "1", "2", "3", "4", "5", "6", "7", "8", "9"}

\* an identifier is the sequence of its characters
\* always valid, as a handler without the test would take every identifier
C19_EveryIdValid(id) == TRUE

\* /^[a-zA-Z0-9_-]{3,50}$/.test(id)
isValidId(id) ==
    /\ Len(id) >= MinIdLength
    /\ Len(id) <= MaxIdLength
    /\ \A k \in 1..Len(id) : id[k] \in Lowercase \cup Uppercase \cup Digits \cup {"_", "-"}

\* the data directory holds no file, no request is in progress
InitialServer ==
    [files |-> {},      \* DATA_DIR: [id, content]; content {} is a file opened
                        \* for writing whose text is not written yet
     saving |-> {},     \* runs of the save handler suspended at an await
     saved |-> {},      \* per id, the latest success reply of a save
     reply |-> {},      \* the reply sent last
     clock |-> 0,       \* new Date() on the server
     requests |-> 0]    \* save requests taken so far

FileOf(id) == {f \in server.files : f.id = id}
WriteFile(files, id, content) ==
    {f \in files : f.id # id} \cup {[id |-> id, content |-> content]}

StatusOK == 200
StatusBadRequest == 400
StatusNotFound == 404
StatusServerError == 500

Reply(op, id, status, body) ==
    [op |-> op, id |-> id, status |-> status, success |-> status = StatusOK,
     body |-> body]

\* POST /save up to the first await: the request is refused, or the handler
\* waits for ensureDataDir.  A body without id (here the empty string) or
\* without data, and an id that fails isValidId, are answered 400.
SaveRequest(req) ==
    /\ IF req.id = <<>> \/ req.data = {} \/ ~isValidId(req.id)
         THEN server' = [server EXCEPT
                 !.reply = {Reply("save", req.id, StatusBadRequest, {})}]
         ELSE /\ server.requests < MaxSaves
              /\ Cardinality(server.saving) < MaxRequests
              /\ server' = [server EXCEPT
                   !.saving = @ \cup {[n |-> server.requests, req |-> req,
                                       pc |-> "ensureDataDir", saveData |-> {}]},
                   !.requests = @ + 1]
    /\ UNCHANGED <<storeVars, schedVars, modalVars, now, nextId, permission,
                   pending, evaluation>>

\* after ensureDataDir: saveData = {...data, savedAt: now} and fs.writeFile
\* opens the file for writing, which empties it
SaveOpen(r) ==
    /\ r \in server.saving
    /\ r.pc = "ensureDataDir"
    /\ LET saveData == {[checklists |-> p.checklists, savedAt |-> server.clock] :
                            p \in r.req.data}
       IN server' = [server EXCEPT
            !.files = WriteFile(@, r.req.id, {}),
            !.saving = (@ \ {r}) \cup
                         {[r EXCEPT !.pc = "writeFile", !.saveData = saveData]}]
    /\ UNCHANGED <<storeVars, schedVars, modalVars, now, nextId, permission,
                   pending, evaluation>>

\* fs.writeFile finishes: the file holds JSON.stringify(saveData), the save
\* replies success with id and savedAt
SaveWritten(r) ==
    /\ r \in server.saving
    /\ r.pc = "writeFile"
    /\ server' = [server EXCEPT
         !.files = WriteFile(@, r.req.id, r.saveData),
         !.saving = @ \ {r},
         !.saved = {s \in @ : s.id # r.req.id} \cup
                     {[id |-> r.req.id, data |-> r.saveData]},
         !.reply = {Reply("save", r.req.id, StatusOK, r.saveData)}]
    /\ UNCHANGED <<storeVars, schedVars, modalVars, now, nextId, permission,
                   pending, evaluation>>

\* GET /load/:id : 400 for an id that fails isValidId, 404 without a file,
\* 500 when JSON.parse throws on the text read, else the parsed data
Load(id) ==
    /\ server' = [server EXCEPT !.reply =
         IF ~isValidId(id) THEN {Reply("load", id, StatusBadRequest, {})}
         ELSE IF FileOf(id) = {} THEN {Reply("load", id, StatusNotFound, {})}
         ELSE IF \E f \in FileOf(id) : f.content = {}
                THEN {Reply("load", id, StatusServerError, {})}
         ELSE {Reply("load", id, StatusOK, f.content) : f \in FileOf(id)}]
    /\ UNCHANGED <<storeVars, schedVars, modalVars, now, nextId, permission,
                   pending, evaluation>>

\* time passes on the server
ServerTick ==
    /\ server.clock < MaxServerTime
    /\ server' = [server EXCEPT !.clock = @ + 1]
    /\ UNCHANGED <<storeVars, schedVars, modalVars, now, nextId, permission,
                   pending, evaluation>>

----------------------------------------------------------------------------
(* Specifications *)

\* what the user types into the forms: a recurring item due on day 2 with
\* two reminders and auto-dismiss, and a plain item without a due date
ReminderForm ==
    [title |-> <<"a">>, dueDate |-> 2, repeatFrequency |-> "daily",
     customInterval |-> Null, reminderRepeat |-> 2, autoDismissAfter |-> 1]
PlainForm ==
    [title |-> <<"a">>, dueDate |-> Null, repeatFrequency |-> "none",
     customInterval |-> Null, reminderRepeat |-> 1, autoDismissAfter |-> Null]
SingleForm == [ReminderForm EXCEPT !.repeatFrequency = "none", !.reminderRepeat = 1]
EmptyForm == [PlainForm EXCEPT !.title = <<" ">>]
Names == {<<"L">>}

\* the app opened on an empty database
Init ==
    /\ dbChecklists = {}
    /\ dbItems = {}
    /\ dbArchive = {}
    /\ checklists = <<>>
    /\ items = InitialItems
    /\ archive = <<>>
    /\ reminderIntervals = InitialReminderIntervals
    /\ timers = {}
    /\ notified = [i \in Ids |-> 0]
    /\ now = 1
    /\ nextId = 0
    /\ nextHandle = 0
    /\ showNewItemModal = FALSE
    /\ editingItem = {}
    /\ selectedChecklist = Null
    /\ permission = TRUE
    /\ pending = {}
    /\ evaluation = {}
    /\ server = InitialServer

\* the timer callbacks and the clock
TimerStep ==
    \/ \E t \in timers : FireDue(t)
    \/ \E t \in timers : FireRepeat(t)
    \/ \E t \in timers, ok \in BOOLEAN : FireDismiss(t, ok)
    \/ ReminderCheck
    \/ Tick

\* the run stays within the first MaxReminderIds ids
InReminderBounds == nextId' <= MaxReminderIds

\* items with reminders in a checklist that comes and goes
Next ==
    \/ \E n \in Names : CreateChecklist(n) /\ InReminderBounds
    \/ \E c \in SeqRange(checklists) : DeleteChecklist(c.id)
    \/ \E c \in SeqRange(checklists) : OpenNewItem(c.id)
    \/ \E i \in SeqRange(items) : OpenEdit(i)
    \/ CloseModal
    \/ \E f \in {ReminderForm, PlainForm} : HandleSubmit(f) /\ InReminderBounds
    \/ \E i \in SeqRange(items), ok \in BOOLEAN :
          ClickComplete(i.id, ok) /\ InReminderBounds
    \/ \E i \in SeqRange(items) : DeleteItem(i.id)
    \/ \E t \in timers : FireDue(t)
    \/ \E t \in timers : FireRepeat(t)
    \/ \E t \in timers, ok \in BOOLEAN : FireDismiss(t, ok) /\ InReminderBounds
    \/ ReminderCheck
    \/ Tick

Spec == Init /\ [][Next]_vars

\* items without a due date, created, copied, completed, deleted and dragged
NextOrder ==
    \/ \E n \in Names : CreateChecklist(n)
    \/ \E c \in SeqRange(checklists) : OpenNewItem(c.id)
    \/ \E f \in {PlainForm} : HandleSubmit(f)
    \/ \E i \in SeqRange(items), ok \in BOOLEAN : ClickComplete(i.id, ok)
    \/ \E i \in SeqRange(items) : DeleteItem(i.id)
    \/ \E i \in SeqRange(items) : DuplicateItem(i)
    \/ \E i, j \in SeqRange(items) : DropOnItem(i, j)
    \/ \E i \in SeqRange(items), c \in SeqRange(checklists) : DropOnChecklist(i, c.id)
    \/ Reload

SpecOrder == Init /\ [][NextOrder]_vars

\* an app whose user sets up one item and from then on only watches: the
\* browser runs every timer callback that is due, and the clock moves on
NoItemYet == dbItems = {}

NextWatch ==
    \/ \E n \in Names : CreateChecklist(n) /\ NoItemYet
    \/ \E c \in SeqRange(checklists) : OpenNewItem(c.id) /\ NoItemYet
    \/ \E f \in {ReminderForm, SingleForm, PlainForm, EmptyForm} : HandleSubmit(f)
    \/ TimerStep

Fairness ==
    /\ WF_vars(\E t \in timers : FireDue(t))
    /\ WF_vars(\E t \in timers : FireRepeat(t))
    /\ WF_vars(\E t \in timers, ok \in BOOLEAN : FireDismiss(t, ok))
    /\ WF_vars(ReminderCheck)
    /\ WF_vars(Tick)

SpecWatch == Init /\ [][NextWatch]_vars /\ Fairness

\* the same, with the app closed and opened again once while a reminder is
\* pending
NextReopen ==
    \/ NextWatch
    \/ Reload /\ timers # {}

SpecReopen == Init /\ [][NextReopen]_vars /\ Fairness

\* one item that its user creates and edits again and again, in an app that
\* may be closed and opened again while a reminder is pending
NextEdit ==
    \/ NextReopen
    \/ \E i \in SeqRange(items) : OpenEdit(i)

SpecEdit == Init /\ [][NextEdit]_vars

\* calculateNextDueDate evaluated on due dates before the ends of months, of
\* the year and of February, in a browser on UTC and in one whose zone is
\* five hours behind UTC and begins daylight saving time on 2024-03-10 at
\* 02:00 local time
UTCZone == [std |-> 0, dst |-> {}]
DaylightZone == [std |-> -5, dst |-> {DateTime(2024, 3, 10, 7)}]
DueDays == {<<2023, 12, 28>>, <<2024, 1, 30>>, <<2024, 2, 27>>, <<2024, 3, 4>>,
            <<2024, 3, 9>>}
DueHours == {7, 15, 23}
Rules == {[frequency |-> "daily", customInterval |-> Null],
          [frequency |-> "weekly", customInterval |-> Null],
          [frequency |-> "custom", customInterval |-> 5],
          [frequency |-> "custom", customInterval |-> 2]}

Evaluate(zone, currentDueDate, rule) ==
    /\ evaluation' =
         {[zone |-> zone, currentDueDate |-> currentDueDate,
           frequency |-> rule.frequency, customInterval |-> rule.customInterval,
           next |-> NextDueDateTime(zone, currentDueDate, rule.frequency,
                                    rule.customInterval)]}
    /\ UNCHANGED <<storeVars, schedVars, modalVars, now, nextId, permission,
                   pending, server>>

NextDue ==
    \E zone \in {UTCZone, DaylightZone}, d \in DueDays, h \in DueHours, rule \in Rules :
        Evaluate(zone, DateTime(d[1], d[2], d[3], h), rule)

SpecDue == Init /\ [][NextDue]_vars

\* one checklist with one item, given a reminder, completed by clicks that may come
\* twice, and auto-dismissed, every toggleItemComplete running step by step;
\* every further active item is a successor that a completion regenerated
NoChecklistYet == nextId = 0
NoItemEver == nextId = 1
\* no reminder was ever armed for the item: the edit is the one that adds it
NoReminderYet(i) == reminderIntervals[i.id] = 0

NextAsync ==
    \/ \E n \in Names : CreateChecklist(n) /\ NoChecklistYet
    \/ \E c \in SeqRange(checklists) : OpenNewItem(c.id) /\ NoItemEver
    \/ \E i \in SeqRange(items) : OpenEdit(i) /\ NoReminderYet(i)
    \/ \E f \in {ReminderForm, PlainForm} : HandleSubmit(f)
    \/ \E i \in SeqRange(items), ok \in BOOLEAN : ClickCompleteBegin(i.id, ok)
    \/ \E t \in timers, ok \in BOOLEAN : FireDismissBegin(t, ok)
    \/ \E c \in pending : ToggleStep(c) /\ InReminderBounds
    \/ \E t \in timers : FireDue(t)
    \/ \E t \in timers : FireRepeat(t)
    \/ Tick

SpecAsync == Init /\ [][NextAsync]_vars

\* the sync server alone: clients send save and load requests with
\* identifiers around the limits of the pattern, with and without data, with
\* and without the passphrase of the deployment guide
RequiredPassphrase == <<"your-new-secret-phrase">>
NoPassphrase == <<>>
ShortestId == <<"a", "b", "c">>
LongestId == [k \in 1..MaxIdLength |-> IF k % 2 = 0 THEN "Z" ELSE "-"]
RequestIds == {ShortestId, LongestId, <<>>, <<"a", "b">>,
               [k \in 1..(MaxIdLength + 1) |-> "a"],
               <<".", ".", "/", "x">>, <<"a", "b", "c", "\n">>}
Payloads == {[checklists |-> 1], [checklists |-> 2]}
SaveRequests ==
    [id : RequestIds, data : {{}} \cup {{p} : p \in Payloads},
     passphrase : {RequiredPassphrase, NoPassphrase}]

NextSync ==
    \/ \E req \in SaveRequests : SaveRequest(req)
    \/ \E r \in server.saving : SaveOpen(r)
    \/ \E r \in server.saving : SaveWritten(r)
    \/ \E id \in RequestIds : Load(id)
    \/ ServerTick

SpecSync == Init /\ [][NextSync]_vars

\* one checklist whose items are created and copied by handler runs that
\* overlap: a second submit or click comes while the first run waits for the
\* database
NextInsert ==
    \/ \E n \in Names : CreateChecklist(n) /\ NoChecklistYet
    \/ \E c \in SeqRange(checklists) : OpenNewItem(c.id)
    \/ \E f \in {PlainForm} : HandleSubmitBegin(f)
    \/ \E c \in pending : ItemSaved(c)
    \/ \E i \in SeqRange(items) : DuplicateItemBegin(i)
    \/ \E c \in pending : ItemDuplicated(c)
    \/ \E i \in SeqRange(items) : DeleteItem(i.id)

SpecInsert == Init /\ [][NextInsert]_vars

\* one checklist whose items recur daily, by a custom rule whose interval
\* field was left empty (the field is not required; its min="1" keeps zero
\* and negative numbers out), or not at all, and are completed by clicks
CustomForm ==
    [ReminderForm EXCEPT !.repeatFrequency = "custom", !.reminderRepeat = 1,
                         !.autoDismissAfter = Null]

NextRegen ==
    \/ \E n \in Names : CreateChecklist(n) /\ NoChecklistYet
    \/ \E c \in SeqRange(checklists) : OpenNewItem(c.id)
    \/ \E f \in {ReminderForm, PlainForm, CustomForm} : HandleSubmit(f)
    \/ \E i \in SeqRange(items), ok \in BOOLEAN : ClickComplete(i.id, ok)
    \/ \E t \in timers : FireDue(t)
    \/ \E t \in timers : FireRepeat(t)
    \/ \E t \in timers, ok \in BOOLEAN : FireDismiss(t, ok)
    \/ Tick

SpecRegen == Init /\ [][NextRegen]_vars

\* checklists with plain and due items that are completed and copied whole
NextCopy ==
    \/ \E n \in Names : CreateChecklist(n)
    \/ \E c \in SeqRange(checklists) : OpenNewItem(c.id)
    \/ \E f \in {PlainForm, SingleForm} : HandleSubmit(f)
    \/ \E i \in SeqRange(items), ok \in BOOLEAN : ClickComplete(i.id, ok)
    \/ \E c \in SeqRange(checklists) : DuplicateChecklist(c)
    \/ \E t \in timers : FireDue(t)
    \/ Tick

SpecCopy == Init /\ [][NextCopy]_vars

\* completions whose storage writes may be rejected
NextFail ==
    \/ \E n \in Names : CreateChecklist(n) /\ NoChecklistYet
    \/ \E c \in SeqRange(checklists) : OpenNewItem(c.id)
    \/ \E f \in {ReminderForm, PlainForm} : HandleSubmit(f)
    \/ \E i \in SeqRange(items), ok \in BOOLEAN : ClickCompleteBegin(i.id, ok)
    \/ \E c \in pending : ToggleStep(c) /\ InReminderBounds
    \/ \E c \in pending : ToggleFails(c)
    \/ Tick

SpecFail == Init /\ [][NextFail]_vars

\* Two runs of the reminder scenario side by side, one with
\* Notification.permission granted and one without.  The run with permission
\* is explored as it is; at any of its states the other run, which has been
\* through the same stores and timers and has shown nothing, is compared with
\* it over one step: one of the two takes a step from the marked state, and
\* the twin is then put in the marked state to take the same step.

\* everything but the notifications shown and the permission
Projection ==
    [stores |-> storeVars, reminderIntervals |-> reminderIntervals,
     timers |-> timers, nextHandle |-> nextHandle, modal |-> modalVars,
     now |-> now, nextId |-> nextId]

NoneShown == [i \in Ids |-> 0]

\* the state of the run of kind `granted` (TRUE: with permission) is `m`
InMarked(m, granted) ==
    /\ Projection = m.projection
    /\ permission = granted
    /\ notified = IF granted THEN m.notified ELSE NoneShown

\* the variables take the values marked in `m`, for the run of kind `granted`
Restore(m, granted) ==
    /\ dbChecklists' = m.projection.stores[1]
    /\ dbItems' = m.projection.stores[2]
    /\ dbArchive' = m.projection.stores[3]
    /\ checklists' = m.projection.stores[4]
    /\ items' = m.projection.stores[5]
    /\ archive' = m.projection.stores[6]
    /\ reminderIntervals' = m.projection.reminderIntervals
    /\ timers' = m.projection.timers
    /\ nextHandle' = m.projection.nextHandle
    /\ showNewItemModal' = m.projection.modal[1]
    /\ editingItem' = m.projection.modal[2]
    /\ selectedChecklist' = m.projection.modal[3]
    /\ now' = m.projection.now
    /\ nextId' = m.projection.nextId
    /\ permission' = granted
    /\ notified' = IF granted THEN m.notified ELSE NoneShown

\* a state of the run with permission is marked, and the run of kind
\* `granted` is to step first
Mark(granted) ==
    /\ evaluation = {}
    /\ evaluation' = {[phase |-> "step", first |-> granted,
                       projection |-> Projection, notified |-> notified,
                       result |-> Projection, shown |-> FALSE]}
    /\ permission' = granted
    /\ notified' = IF granted THEN notified ELSE NoneShown
    /\ UNCHANGED <<storeVars, reminderIntervals, timers, nextHandle, modalVars,
                   now, nextId, pending, server>>

\* the run that stepped first has left the marked state: its twin is put in
\* the marked state, to be compared with where the first one went
Compare ==
    \E m \in evaluation :
        /\ m.phase = "step"
        /\ ~InMarked(m, m.first)
        /\ evaluation' = {[m EXCEPT !.phase = "compare",
                                    !.result = Projection,
                                    !.shown = (notified # m.notified)]}
        /\ Restore(m, ~m.first)
        /\ UNCHANGED <<pending, server>>

NextTwin ==
    \/ evaluation = {} /\ NextWatch
    \/ \E granted \in BOOLEAN : Mark(granted)
    \/ (\E m \in evaluation : m.phase = "step" /\ InMarked(m, m.first)) /\ NextWatch
    \/ Compare

SpecTwin == Init /\ [][NextTwin]_vars

\* daily items with and without a due date, completed by their user
UndatedDailyForm == [PlainForm EXCEPT !.repeatFrequency = "daily"]

NextUndated ==
    \/ \E n \in Names : CreateChecklist(n) /\ NoChecklistYet
    \/ \E c \in SeqRange(checklists) : OpenNewItem(c.id)
    \/ \E f \in {UndatedDailyForm, ReminderForm} : HandleSubmit(f)
    \/ \E i \in SeqRange(items), ok \in BOOLEAN : ClickComplete(i.id, ok)
    \/ \E t \in timers : FireDue(t)
    \/ \E t \in timers : FireRepeat(t)
    \/ Tick

SpecUndated == Init /\ [][NextUndated]_vars

----------------------------------------------------------------------------
(* Properties *)

ActiveIds == StoreIds(dbItems)
ArchivedIds == StoreIds(dbArchive)
ItemsOf(c) == {r \in dbItems : r.checklistId = c}
TimersOf(i) == {t \in timers : t.item.id = i}

\* C1: after every item operation the positions of a checklist's active
\* items are exactly 1..count, without duplicates or gaps
C1_PositionsDense ==
    \A c \in StoreIds(dbChecklists) :
        {r.order : r \in ItemsOf(c)} = 1..Cardinality(ItemsOf(c))

\* C2: between commands no item id is both in the persisted active
\* collection and in the persisted archive
C2_NeverActiveAndArchived == ActiveIds \cap ArchivedIds = {}

\* C3: an item scheduled with its dueDate already past and reminderRepeat N,
\* left alone by the user, has been notified exactly N times once no timer
\* is live for it
C3_PastDueNotifiedRepeatTimes ==
    \A r \in dbItems :
        (/\ r.dueDate # Null
         /\ DateOf(r.dueDate) <= r.createdAt
         /\ TimersOf(r.id) = {})
        => notified[r.id] = r.reminderRepeat

\* C4: an item with autoDismissAfter set that the user leaves alone is
\* eventually in the archive and no longer in the active collection
C4_AutoDismissArchives ==
    \A i \in Ids :
        (\E r \in dbItems : r.id = i /\ r.dueDate # Null
                            /\ r.autoDismissAfter # Null)
        ~> (i \in ArchivedIds /\ i \notin ActiveIds)

\* C5: an auto-dismiss callback that fires for an item no longer in the
\* active collection writes no record and changes no state
C5_DismissRevalidates ==
    [][\A t \in timers, ok \in BOOLEAN :
         (FireDismiss(t, ok) /\ t.item.id \notin ActiveIds)
         => UNCHANGED <<storeVars, reminderIntervals, notified, nextId>>]_vars

\* C6: when deleteChecklist(id) has finished, no active and no archived
\* record carries that checklistId and the checklist record is gone
C6_DeleteChecklistCascades ==
    [][\A c \in SeqRange(checklists) :
         DeleteChecklist(c.id)
         => /\ c.id \notin StoreIds(dbChecklists')
            /\ \A r \in dbItems' \cup dbArchive' : r.checklistId # c.id
            /\ \A k \in 1..Len(items') : items'[k].checklistId # c.id
            /\ \A k \in 1..Len(archive') : archive'[k].checklistId # c.id]_vars

\* C7: for an item that is not (or no longer) active, no step emits a
\* notification and no timer armed for it is live
C7_NoReminderAfterRemoval ==
    [][\A i \in Ids :
         i \notin ActiveIds'
         => /\ notified'[i] = notified[i]
            /\ \A t \in timers' : t.item.id # i]_vars

\* C8: at most one timer is live for any item id
C8_OneTimerPerItem == \A i \in Ids : Cardinality(TimersOf(i)) <= 1

\* C9: an active item whose dueDate has passed, with no live timer and no
\* notification so far, eventually gets its due notification from the sweep
C9_SweepNotifiesOverdue ==
    \A i \in Ids :
        (/\ \E r \in dbItems : r.id = i /\ r.dueDate # Null
                               /\ DateOf(r.dueDate) < now
         /\ \E k \in 1..Len(items) : items[k].id = i
         /\ TimersOf(i) = {}
         /\ notified[i] = 0)
        ~> (notified[i] > 0)

\* C10: every record of the active collection refers to an existing
\* checklist
C10_ItemsReferToChecklists ==
    \A r \in dbItems : r.checklistId \in StoreIds(dbChecklists)

\* the active record that a step moves into the archive: its id is in the
\* archive store after the step and was not before
Completes(r) == r \in dbItems /\ r.id \in ArchivedIds' /\ r.id \notin ArchivedIds

\* the active records a step creates
NewActive == {n \in dbItems' : n.id \notin ActiveIds}

\* C11: completing an active daily item due on D produces exactly one new
\* active item, due on D + 1, and leaves the original in the archive with
\* dueDate D and a completedAt timestamp
C11_DailyCompletionRegenerates ==
    [][\A r \in dbItems :
         (Completes(r) /\ r.repeatFrequency = "daily" /\ r.dueDate # Null)
         => /\ r.id \notin ActiveIds'
            /\ Cardinality(NewActive) = 1
            /\ \A n \in NewActive : n.dueDate = r.dueDate + 1
            /\ \E a \in dbArchive' : /\ a.id = r.id
                                     /\ a.dueDate = r.dueDate
                                     /\ a.completedAt = now]_vars

\* C12: completing an item with repeatFrequency none creates no new active
\* item: the active collection loses exactly that record and no record with
\* a new id appears
C12_NoRepeatNoSuccessor ==
    [][\A r \in dbItems :
         (Completes(r) /\ r.repeatFrequency = "none")
         => /\ NewActive = {}
            /\ Cardinality(dbItems') = Cardinality(dbItems) - 1]_vars

\* a completion of this record regenerates a successor
Recurs(r) ==
    /\ r.repeatFrequency # "none"
    /\ CalculateNextDueDate(r.dueDate, r.repeatFrequency, r.customInterval) # Null

\* runs of toggleItemComplete that have archived their item and have not yet
\* reached the regeneration
BeforeRegeneration ==
    {c \in pending : c.pc \in {"itemsDelete", "completed"} /\ Recurs(c.item)}

\* C13: completing is idempotent, also when two invocations for one id are
\* interleaved (two clicks, a click and the auto-dismiss timer): the archive
\* holds one record per id, every archived recurring item has exactly one
\* successor (ids from 3 on are successors), and an invocation that finds the
\* id archived changes nothing
C13_CompleteIdempotent ==
    /\ [](\A a, b \in dbArchive : a.id = b.id => a = b)
    /\ [](\A j, k \in 1..Len(archive) : archive[j].id = archive[k].id => j = k)
    /\ [](nextId >= 2 =>
            nextId - 2 = Cardinality({a \in dbArchive : Recurs(a)})
                         - Cardinality(BeforeRegeneration))
    /\ [][\A c \in pending :
            (c.pc = "archiveAdd" /\ c.itemId \in ArchivedIds /\ ToggleArchiveAdd(c))
            => UNCHANGED <<storeVars, schedVars, nextId>>]_vars

\* a second invocation is suspended at its add while the first one has
\* archived the item and regenerated its successor
C13_SecondInvocationRaced ==
    \E c \in pending :
        /\ c.pc = "archiveAdd"
        /\ c.itemId \in ArchivedIds
        /\ Recurs(c.item)
        /\ \E r \in dbItems : r.id > c.itemId

\* the days a rule adds
RuleDays(frequency, customInterval) ==
    CASE frequency = "daily" -> 1
      [] frequency = "weekly" -> DaysPerWeek
      [] frequency = "custom" -> customInterval

\* C14: nextDue(D, rule) is the instant D + 1 day for daily, D + 7 days for
\* weekly and D + n days for custom(n), the time of day unchanged, across the
\* ends of months and years
C14_NextDueAddsDays ==
    \A e \in evaluation :
        e.next = e.currentDueDate + (RuleDays(e.frequency, e.customInterval) * 24)

\* the positions of the active items of checklist c are 1..count
Dense(c) == {r.order : r \in ItemsOf(c)} = 1..Cardinality(ItemsOf(c))

\* the persisted record of item id after the step
After(id) == CHOOSE r \in dbItems' : r.id = id

\* C15: dropping an item on another item of its checklist, whose positions
\* are 1..N, puts the moved item at the position of the target, keeps the
\* relative order of all other items and rewrites the positions to 1..N
C15_ReorderMovesToTarget ==
    [][\A i, j \in dbItems :
         (/\ DropOnItem(i, j)
          /\ i.id # j.id
          /\ i.checklistId = j.checklistId
          /\ Dense(i.checklistId))
         => /\ StoreIds(dbItems') = StoreIds(dbItems)
            /\ After(i.id).order = j.order
            /\ \A x, y \in ItemsOf(i.checklistId) \ {i} :
                  x.order < y.order => After(x.id).order < After(y.id).order
            /\ {r.order : r \in {q \in dbItems' : q.checklistId = i.checklistId}}
                 = 1..Cardinality(ItemsOf(i.checklistId))]_vars

\* C16: after every checklist operation the positions of all checklists
\* form the dense sequence 1..M
C16_ChecklistPositionsDense ==
    {c.order : c \in dbChecklists} = 1..Cardinality(dbChecklists)

\* C17: an archive record is immutable once written: every step leaves it
\* as it is, or removes it in the cascade of deleteChecklist for the
\* checklist that owns it
C17_ArchiveImmutable ==
    [][\A a \in dbArchive :
         \/ a \in dbArchive'
         \/ /\ a.id \notin ArchivedIds'
            /\ \E c \in SeqRange(checklists) :
                  c.id = a.checklistId /\ DeleteChecklist(c.id)]_vars

\* an id archived on an earlier day has been written again as an active
\* record, and its archive record stands
C17_ArchivedIdWrittenAgain ==
    \E a \in dbArchive : a.completedAt < now /\ a.id \in ActiveIds

\* the identifiers of the pattern ^[A-Za-z0-9_-]{3,50}$
IdPattern(id) ==
    /\ Len(id) \in 3..50
    /\ \A k \in 1..Len(id) : id[k] \in Lowercase \cup Uppercase \cup Digits \cup {"_", "-"}

\* C18: after a successful save(id, payload), load(id) succeeds and returns
\* the payload's fields with the savedAt the save reported, until the next
\* successful save for the same id
C18_LoadReturnsSaved ==
    [][\A id \in RequestIds :
         Load(id) =>
           \A s \in server.saved :
             s.id = id => server'.reply = {Reply("load", id, StatusOK, s.data)}]_vars

\* C19: save and load answer every identifier outside the pattern with an
\* error, and a refused save writes no file and leaves no handler running
\* that would write one
C19_BadIdRejected ==
    /\ [](\A f \in server.files : IdPattern(f.id))
    /\ [](\A r \in server.saving : IdPattern(r.req.id))
    /\ [](\A rp \in server.reply :
            ~IdPattern(rp.id) =>
              rp.status = StatusBadRequest /\ ~rp.success /\ rp.body = {})
    /\ [][(/\ server'.reply # server.reply
           /\ \E rp \in server'.reply : rp.op = "save" /\ ~IdPattern(rp.id))
          => /\ server'.files = server.files
             /\ server'.saving = server.saving
             /\ server'.saved = server.saved]_vars

\* a save with an identifier outside the pattern was refused while data of
\* an earlier save is stored
C19_BadSaveRefused ==
    /\ server.files # {}
    /\ \E rp \in server.reply :
         rp.op = "save" /\ ~IdPattern(rp.id) /\ rp.id # <<>> /\ ~rp.success

\* C20: a save request that does not carry the configured passphrase is not
\* accepted and leaves the data stored for its id unchanged
C20_SaveNeedsPassphrase ==
    [][\A r \in server.saving :
         r.req.passphrase # RequiredPassphrase =>
           ~SaveOpen(r) /\ ~SaveWritten(r)]_vars

\* C21: an item created in a checklist, and the copy duplicateItem makes of
\* an item of the checklist, gets the position after the greatest position of
\* the checklist's active items, or 1 when the checklist has none
C21_InsertAtEnd ==
    [][\A n \in NewActive :
         /\ \A r \in ItemsOf(n.checklistId) : r.order < n.order
         /\ \/ n.order = 1 /\ ItemsOf(n.checklistId) = {}
            \/ \E r \in ItemsOf(n.checklistId) : r.order = n.order - 1]_vars

\* the newest item was appended to a checklist whose positions have a gap:
\* its position is greater than the number of items
C21_AppendedAfterGap ==
    \E n \in dbItems :
        /\ n.id = nextId
        /\ ItemsOf(n.checklistId) # {n}
        /\ n.order > Cardinality(ItemsOf(n.checklistId))

\* the positions of the active items of checklist c after the step are 1..count
DenseAfter(c) ==
    LET after == {r \in dbItems' : r.checklistId = c}
    IN {r.order : r \in after} = 1..Cardinality(after)

\* item i has moved from checklist source to checklist target, and both have
\* the positions 1..count
MovedDense(i, source, target) ==
    /\ StoreIds(dbItems') = StoreIds(dbItems)
    /\ After(i.id).checklistId = target
    /\ DenseAfter(source)
    /\ DenseAfter(target)

\* C22: moving an item to another checklist, both with positions 1..count,
\* closes the gap in the source checklist and inserts at the target index, so
\* that both checklists have positions 1..count again and the moved item
\* carries the target checklistId
C22_MoveBetweenKeepsDense ==
    [][/\ \A i, j \in dbItems :
            (/\ DropOnItem(i, j)
             /\ i.checklistId # j.checklistId
             /\ Dense(i.checklistId) /\ Dense(j.checklistId))
            => /\ MovedDense(i, i.checklistId, j.checklistId)
               /\ After(i.id).order = j.order
       /\ \A i \in dbItems, c \in StoreIds(dbChecklists) :
            (/\ DropOnChecklist(i, c)
             /\ i.checklistId # c
             /\ Dense(i.checklistId) /\ Dense(c))
            => MovedDense(i, i.checklistId, c)]_vars

\* C23: two inserts into one checklist issued back-to-back behave as if one
\* had finished before the other began: the second sees the item of the
\* first, and the two new items get distinct positions
C23_InsertsSerialized ==
    \A r, q \in dbItems :
        (r.checklistId = q.checklistId /\ r.order = q.order) => r = q

\* C24: when a recurring item is completed and a next due date exists, the
\* regenerated item has a new id, completed = false and the position after
\* the greatest position of the remaining active items of the checklist, and
\* the scheduler has run for it (a timer is live, or it was notified as
\* overdue)
C24_RegeneratedAppended ==
    [][\A r \in dbItems :
         (/\ Completes(r)
          /\ r.dueDate # Null
          /\ \/ r.repeatFrequency \in {"daily", "weekly"}
             \/ r.repeatFrequency = "custom" /\ r.customInterval > 0)
         => /\ NewActive # {}
            /\ \A n \in NewActive :
                 LET remaining == ItemsOf(r.checklistId) \ {r}
                 IN /\ n.id \notin ActiveIds \cup ArchivedIds
                    /\ ~n.completed
                    /\ \A q \in remaining : q.order < n.order
                    /\ \/ n.order = 1 /\ remaining = {}
                       \/ \E q \in remaining : q.order = n.order - 1
                    /\ \/ \E t \in timers' : t.item.id = n.id
                       \/ notified'[n.id] > 0]_vars

\* C25: a custom repeat rule whose interval is missing, zero or negative is
\* treated as none: completing such an item creates no successor
C25_BadCustomIntervalNoSuccessor ==
    [][\A r \in dbItems :
         (/\ Completes(r)
          /\ r.repeatFrequency = "custom"
          /\ (r.customInterval = Null \/ r.customInterval <= 0))
         => NewActive = {}]_vars

\* C26: once an edit has cleared the dueDate of an item, no timer for the
\* item is live and no notification is emitted for it
C26_ClearedDueCancels ==
    [][\A i \in Ids :
         (\E r \in dbItems' : r.id = i /\ r.dueDate = Null)
         => /\ \A t \in timers' : t.item.id # i
            /\ (\E r \in dbItems : r.id = i /\ r.dueDate = Null)
               => notified'[i] = notified[i]]_vars

\* C27: editing an active item leaves its position, id, createdAt and
\* checklist as they are, and every other item's record unchanged, in the
\* store and in the list the page shows
C27_EditFrame ==
    [][\A e \in editingItem, f \in {ReminderForm, PlainForm} :
         (HandleSubmit(f) /\ e.id \in ActiveIds)
         => /\ StoreIds(dbItems') = StoreIds(dbItems)
            /\ Cardinality(dbItems') = Cardinality(dbItems)
            /\ \A r \in dbItems :
                 IF r.id = e.id
                 THEN /\ After(r.id).order = r.order
                      /\ After(r.id).createdAt = r.createdAt
                      /\ After(r.id).checklistId = r.checklistId
                 ELSE r \in dbItems'
            /\ Len(items') = Len(items)
            /\ \A k \in 1..Len(items) :
                 items[k].id # e.id => items'[k] = items[k]]_vars

\* an item was edited on a later day than it was created, next to another
\* active item
C27_EditedNextToAnother ==
    \E r, q \in dbItems : r.id # q.id /\ r.updatedAt > r.createdAt

\* the records, active or archived, whose reminder was scheduled before
\* their due date: no form is ever edited in the runs this is used for, so
\* createdAt is the time setupReminder ran
FutureScheduled ==
    {r \in dbItems \cup dbArchive : r.dueDate # Null /\ DateOf(r.dueDate) > r.createdAt}

\* the due and repeat timers live for item id
ReminderTimers(id) == {t \in TimersOf(id) : t.kind \in {"due", "repeat"}}

\* C28: an item scheduled with a future dueDate and reminderRepeat N that the
\* user leaves alone gets one due notification when the due timer fires; for
\* N <= 1 no repeat timer is armed and nothing follows; for N > 1 exactly
\* N - 1 repeat notifications follow, N in total
C28_NotifiedRepeatTimes ==
    /\ [](\A r \in FutureScheduled : notified[r.id] <= r.reminderRepeat)
    /\ [](\A t \in timers : t.kind = "repeat" => t.item.reminderRepeat > 1)
    /\ [][\A t \in timers :
            t.kind = "due" /\ t \notin timers'
            => notified[t.item.id] = 0 /\ notified'[t.item.id] = 1]_vars
    /\ \A i \in Ids, n \in 1..MaxNotified :
          (\E r \in FutureScheduled : r.id = i /\ r.reminderRepeat = n)
          ~> (notified[i] = n /\ ReminderTimers(i) = {})

\* an item scheduled ahead of its due date with two reminders has been
\* notified twice and its repeat timer is gone
C28_RepeatsDone ==
    \E r \in FutureScheduled :
        r.reminderRepeat > 1 /\ notified[r.id] = r.reminderRepeat
        /\ ReminderTimers(r.id) = {}

\* the repeat interval with handle h is live
Repeating(h) == \E t \in timers : t.h = h /\ t.kind = "repeat"

\* C29: every repeat interval is cleared after finitely many ticks, at most
\* reminderRepeat of them, and its handle never ticks again
C29_RepeatSettles ==
    /\ \A h \in Handles : Repeating(h) ~> ~Repeating(h)
    /\ [](\A t \in timers :
            t.kind = "repeat" => t.repeatCount <= t.item.reminderRepeat)
    /\ [][\A t \in timers' :
            t.kind = "repeat" => Repeating(t.h) \/ t.h > nextHandle]_vars

\* a repeat interval has made its last tick: it is gone and the auto-dismiss
\* timeout it armed is live
C29_RepeatCleared ==
    \E t \in timers :
        /\ t.kind = "dismiss"
        /\ t.repeatCount = t.item.reminderRepeat
        /\ \A u \in TimersOf(t.item.id) : u.kind # "repeat"

CopyOf(n, r) ==
    /\ n.title = r.title
    /\ n.dueDate = r.dueDate
    /\ n.order = r.order
    /\ n.repeatFrequency = r.repeatFrequency
    /\ n.customInterval = r.customInterval
    /\ n.reminderRepeat = r.reminderRepeat
    /\ n.autoDismissAfter = r.autoDismissAfter

\* C31: duplicateChecklist creates one new checklist and, for every active
\* item of the original, exactly one copy under it with a fresh id and
\* completed = false; no archived item is copied, and the items and the
\* archive of the original stay as they are
C31_DuplicateChecklistCopiesActive ==
    [][\A c \in SeqRange(checklists) :
         DuplicateChecklist(c)
         => LET newChecklists == {x \in dbChecklists' : x.id \notin StoreIds(dbChecklists)}
            IN /\ Cardinality(newChecklists) = 1
               /\ dbChecklists \subseteq dbChecklists'
               /\ dbItems \subseteq dbItems'
               /\ dbArchive' = dbArchive
               /\ Cardinality(NewActive) = Cardinality(ItemsOf(c.id))
               /\ \A r \in ItemsOf(c.id) :
                    Cardinality({n \in NewActive : CopyOf(n, r)}) = 1
               /\ \A n \in NewActive :
                    /\ n.checklistId \in StoreIds(newChecklists)
                    /\ ~n.completed
                    /\ n.id \notin ActiveIds \cup ArchivedIds \cup StoreIds(dbChecklists')]_vars

\* a checklist made by duplicateChecklist (the only one with an order) holds
\* the copy of an item
C31_CopyHoldsItem ==
    \E c \in dbChecklists : c.order # Undefined /\ ItemsOf(c.id) # {}

\* C32: when the delete of a completion is rejected after the archive write,
\* no partial change stays committed: the archived snapshot the run wrote is
\* not in the store
C32_FailedCompletionLeavesNothing ==
    [][\A c \in pending :
         (ToggleFails(c) /\ c.pc = "itemsDelete")
         => c.completedItem \notin dbArchive']_vars

\* a title with a character that is not a blank
Titled(r) == \E k \in 1..Len(r.title) : r.title[k] # " "

\* C33: a form whose title is empty or blank is rejected before anything is
\* written or armed, so no active or archived item, stored or in memory, and
\* no timer, ever carries a blank title
C33_NoBlankTitle ==
    /\ \A r \in dbItems \cup dbArchive \cup SeqRange(items) \cup SeqRange(archive) :
         Titled(r)
    /\ \A t \in timers : Titled(t.item)

\* the form is open on a saved item, and the blank title can be submitted
C33_BlankFormOpen ==
    /\ showNewItemModal
    /\ editingItem # {}
    /\ editingItem \subseteq dbItems
    /\ ~Titled(EmptyForm)
    /\ ENABLED HandleSubmit(EmptyForm)

\* C34: permission does not influence scheduling or lifecycle: whatever step
\* one of the two runs takes from the same stores and timers, its twin can
\* take to the same stores, timers, form, clock and ids; only the
\* notifications shown differ, the run without permission showing none
C34_PermissionBlind ==
    /\ \A m \in evaluation :
         m.phase = "compare" => ENABLED (NextWatch /\ Projection' = m.result)
    /\ ~permission => notified = NoneShown

\* the run with permission has shown a notification in a step that its twin
\* without permission is about to take
C34_TwinOfNotifyingStep ==
    \E m \in evaluation :
        /\ m.phase = "compare"
        /\ m.first
        /\ m.shown
        /\ ~permission
        /\ m.result.timers # timers

\* C35: the pass that re-enumerates a scope heals it: once the data has been
\* loaded, the persisted positions of every checklist's items are 1..N
C35_LoadRepairsPositions ==
    [][Reload => \A c \in StoreIds(dbChecklists) : DenseAfter(c)]_vars

\* C36: once every command has finished, the in-memory collections hold
\* exactly the records of the persisted stores
C36_MemoryIsStore ==
    pending = {}
    => /\ SeqRange(checklists) = dbChecklists
       /\ SeqRange(items) = dbItems
       /\ SeqRange(archive) = dbArchive
       /\ Len(items) = Cardinality(dbItems)
       /\ Len(archive) = Cardinality(dbArchive)

\* the sequence s is in the order of its positions
SortedByOrder(s) == \A a, b \in 1..Len(s) : a < b => s[a].order <= s[b].order

\* C37: after a reorder within a checklist or a move between checklists the
\* in-memory items of every checklist are in the order of their positions
C37_MemorySortedAfterDrop ==
    [][\A i \in SeqRange(items) :
         (\/ \E j \in SeqRange(items) : DropOnItem(i, j)
          \/ \E c \in SeqRange(checklists) : DropOnChecklist(i, c.id))
         => \A c \in SeqRange(checklists) :
               SortedByOrder(SeqOfChecklist(items', c.id))]_vars

\* C38: reminderIntervals has an entry for an item id exactly when a timer
\* of that id is live
C38_EntryIffLiveTimer ==
    \A i \in Ids : reminderIntervals[i] # 0 <=> TimersOf(i) # {}

\* C39: when the auto-dismiss callback completes an item, the archived
\* snapshot is built from the record the item has at fire time
C39_DismissArchivesCurrent ==
    [][\A t \in timers, ok \in BOOLEAN :
         (FireDismiss(t, ok) /\ dbArchive' # dbArchive)
         => \A a \in dbArchive' \ dbArchive :
               \E r \in dbItems : r.id = a.id /\ a = CompletedItem(r, now)]_vars

\* C40: every successor that a completion creates is due strictly later than
\* its origin, and an origin without a due date gets no successor with a due
\* date made up for it
C40_SuccessorDueLater ==
    [][\A r \in dbItems :
         Completes(r)
         => \A n \in NewActive :
               /\ r.dueDate # Null
               /\ n.dueDate # Null
               /\ n.dueDate > r.dueDate]_vars

====
